---- MODULE Spec2Model ----
(***************************************************************************)
(* Model of smite.py: the SmiteClient session slot, the request path       *)
(* (_make_request, _test_session, _create_session, _build_request_url)     *)
(* and _switch_endpoint, against a transport (urlopen) that may answer     *)
(* each call with any HTTP outcome.                                        *)
(***************************************************************************)
EXTENDS Integers, Sequences, FiniteSets, TLC

\* ------------------------------------------------------------------ bounds
\* Number of distinct session identifiers the remote service hands out.
MaxSessions == 2

\* Number of seconds the wall clock may advance.
MaxClock == 2

\* ------------------------------------------------------------- JSON values
\* A decoded JSON value (json.loads): null, an object (its key set; v is the
\* value under "session_id" or "id"), an array (v is its length) or a string
\* (its words).
Json(tag, keys, v, words) == [tag |-> tag, keys |-> keys, v |-> v, words |-> words]

JNull == Json("null", {}, 0, <<>>)

JEmptyObj == Json("object", {}, 0, <<>>)

JEmptyList == Json("array", {}, 0, <<>>)

\* {"session_id": s, "ret_msg": "Approved", "timestamp": ...}
JSession(s) == Json("object", {"session_id", "ret_msg", "timestamp"}, s, <<>>)

\* {"ret_msg": "..."}: a createsession answer that carries no session_id
JNoId == Json("object", {"ret_msg"}, 0, <<>>)

\* {"id": 1, "Name": "TestGod"}
JGod == Json("object", {"id", "Name"}, 1, <<>>)

\* a one-element list of matches
JMatches == Json("array", {}, 1, <<>>)

JTestOk == Json("string", {}, 0, <<"This", "was", "a", "successful", "test">>)

JTestBad == Json("string", {}, 0, <<"Invalid", "session", "id.">>)

\* Python truth value of a decoded JSON value: `not x` is ~Truthy(x).
Truthy(j) ==
    CASE j.tag = "null" -> FALSE
      [] j.tag = "object" -> j.keys # {}
      [] j.tag = "array" -> j.v > 0
      [] OTHER -> j.words # <<>>

\* Python `"successful" in x` for a decoded string or object.
Contains(j, w) ==
    CASE j.tag = "string" -> \E i \in 1..Len(j.words) : j.words[i] = w
      [] j.tag = "object" -> w \in j.keys
      [] OTHER -> FALSE

\* session.get("session_id"): what the lookup does on the held value.
\* "AttributeError" for None (no .get), "None" for a missing key.
GetSessionId(j) ==
    CASE j.tag = "null" -> [err |-> "AttributeError", sid |-> 0]
      [] j.tag = "object" /\ "session_id" \in j.keys -> [err |-> "", sid |-> j.v]
      [] OTHER -> [err |-> "None", sid |-> 0]

\* ---------------------------------------------------------------- endpoints
Endpoints == {"PC", "PS4", "XBOX"}

EndpointValue(e) ==
    CASE e = "PC" -> "http://api.smitegame.com/smiteapi.svc/"
      [] e = "PS4" -> "http://api.ps4.smitegame.com/smiteapi.svc/"
      [] OTHER -> "http://api.xbox.smitegame.com/smiteapi.svc/"

\* Arguments a caller may hand to _switch_endpoint: the enum members, and
\* values that are not members (a bare URL string, a platform name).
SwitchArgs == Endpoints \cup {"http://api.ps4.smitegame.com/smiteapi.svc/", "SWITCH"}

\* isinstance(endpoint, Endpoint)
IsEndpoint(e) == e \in Endpoints

\* ---------------------------------------------------------------- transport
Threads == {1, 2}

\* What urlopen(url).read() can do: return a body (err = ""), raise
\* HTTPError with a status code, or raise URLError (no HTTP answer).
Resp(err, code, body) == [err |-> err, code |-> code, body |-> body]

HttpErrors == {Resp("HTTPError", c, JNull) : c \in {400, 404, 500}} \cup {Resp("URLError", 0, JNull)}

TestResponses == {Resp("", 200, b) : b \in {JTestOk, JTestBad}} \cup HttpErrors

DataResponses == {Resp("", 200, b) : b \in {JNull, JEmptyObj, JEmptyList, JGod, JMatches}} \cup HttpErrors

\* The public methods modelled: get_gods (lang = 1) and get_top_matches.
PublicCalls == {<<"getgods", <<1>>>>, <<"gettopmatches", <<>>>>}

\* str(param) for the parameters used
Str(n) == IF n = 1 THEN "1" ELSE "0"

\* ------------------------------------------------------------------- state
VARIABLES
    session,   \* self._session
    baseUrl,   \* self._BASE_URL
    pc,        \* per thread: where it stands inside _make_request
    op,        \* per thread: the operation in progress or last finished
    log,       \* per thread: the network calls of that operation, in order
    result,    \* per thread: how that operation ended
    issuedAt,  \* remote service: for each session identifier handed out, the
               \* base URL whose createsession produced it
    raised,    \* the transport answer and the exception of each kind of
               \* data-request failure seen so far
    clock,     \* datetime.utcnow(), in whole seconds
    firstRead, \* per thread: the first timestamp read for the URL being
               \* built (NoRead when none is pending)
    urls       \* per thread: the signed URLs built in its operation, in order

vars == <<session, baseUrl, pc, op, log, result, issuedAt, raised, clock, firstRead, urls>>

\* the variables of URL signing
signing == <<clock, firstRead, urls>>

NoRead == -1

NoOp == [name |-> "none", methodname |-> "", parameters |-> <<>>, arg |-> "",
         preSession |-> JNull, preBase |-> ""]

NoResult == [kind |-> "none", cls |-> "", msg |-> "", value |-> JNull]

Return(v) == [kind |-> "return", cls |-> "", msg |-> "", value |-> v]

Raise(cls, msg) == [kind |-> "raise", cls |-> cls, msg |-> msg, value |-> JNull]

\* One network call as seen on the wire, with the answer it got.
Event(method, base, sid, params, r) ==
    [method |-> method, base |-> base, sid |-> sid, params |-> params,
     err |-> r.err, code |-> r.code, body |-> r.body]

Init ==
    /\ session = JNull
    /\ baseUrl = EndpointValue("PC")
    /\ pc = [t \in Threads |-> "idle"]
    /\ op = [t \in Threads |-> NoOp]
    /\ log = [t \in Threads |-> <<>>]
    /\ result = [t \in Threads |-> NoResult]
    /\ issuedAt = <<>>
    /\ raised = {}
    /\ clock = 0
    /\ firstRead = [t \in Threads |-> NoRead]
    /\ urls = [t \in Threads |-> <<>>]

\* The thread's operation ends with outcome r.
Finish(t, r) ==
    /\ pc' = [pc EXCEPT ![t] = "idle"]
    /\ result' = [result EXCEPT ![t] = r]

Goto(t, where) ==
    /\ pc' = [pc EXCEPT ![t] = where]
    /\ UNCHANGED result

\* ------------------------------------------------------------ _make_request
\* Line 75, first operand: `not self._session`.
NoSessionHeld(s) == ~Truthy(s)

\* Line 75: the client enters _make_request; with a falsy slot it goes
\* straight to _create_session, otherwise it calls _test_session on the
\* value it read from the slot.
BeginRequest(t, c) ==
    /\ pc[t] = "idle"
    /\ op' = [op EXCEPT ![t] = [name |-> "request", methodname |-> c[1],
                                parameters |-> c[2], arg |-> "",
                                preSession |-> session, preBase |-> baseUrl]]
    /\ log' = [log EXCEPT ![t] = <<>>]
    /\ pc' = [pc EXCEPT ![t] = IF NoSessionHeld(session) THEN "create" ELSE "test"]
    /\ result' = [result EXCEPT ![t] = NoResult]
    /\ UNCHANGED <<session, baseUrl, issuedAt, raised>>

\* ------------------------------------------------------------ _test_session
\* TestOutcome with the verdict ignored: a session is created after every
\* answered probe.
TestOutcome_AlwaysRenew(r) ==
    CASE r.err = "URLError" -> [next |-> "raise", exc |-> Raise("URLError", "")]
      [] r.err = "HTTPError" /\ r.code = 404 ->
            [next |-> "raise",
             exc |-> Raise("NoResultError", "Couldn't test session. API auth details may be incorrect.")]
      [] r.err = "HTTPError" /\ r.code # 404 ->
            [next |-> "raise", exc |-> Raise("UnboundLocalError", "html")]
      [] OTHER -> [next |-> "create", exc |-> NoResult]

\* TestOutcome with a 404 read as "session expired": the request goes on to
\* create a session.
TestOutcome_404AsExpired(r) ==
    CASE r.err = "URLError" -> [next |-> "raise", exc |-> Raise("URLError", "")]
      [] r.err = "HTTPError" /\ r.code = 404 -> [next |-> "create", exc |-> NoResult]
      [] r.err = "HTTPError" /\ r.code # 404 ->
            [next |-> "raise", exc |-> Raise("UnboundLocalError", "html")]
      [] OTHER ->
            [next |-> IF Contains(r.body, "successful") THEN "data" ELSE "create",
             exc |-> NoResult]

\* TestOutcome with the verdict inverted: a probe without the marker lets the
\* request go on with the held session.
TestOutcome_Inverted(r) ==
    CASE r.err = "URLError" -> [next |-> "raise", exc |-> Raise("URLError", "")]
      [] r.err = "HTTPError" /\ r.code = 404 ->
            [next |-> "raise",
             exc |-> Raise("NoResultError", "Couldn't test session. API auth details may be incorrect.")]
      [] r.err = "HTTPError" /\ r.code # 404 ->
            [next |-> "raise", exc |-> Raise("UnboundLocalError", "html")]
      [] OTHER ->
            [next |-> IF Contains(r.body, "successful") THEN "create" ELSE "data",
             exc |-> NoResult]

\* Lines 134-141: what _test_session does with the transport's answer.
\* A 404 raises NoResultError; any other HTTPError is printed and execution
\* falls through to html.decode with html never bound (UnboundLocalError);
\* URLError is not caught. Otherwise the verdict is `"successful" in body`.
TestOutcome(r) ==
    CASE r.err = "URLError" -> [next |-> "raise", exc |-> Raise("URLError", "")]
      [] r.err = "HTTPError" /\ r.code = 404 ->
            [next |-> "raise",
             exc |-> Raise("NoResultError", "Couldn't test session. API auth details may be incorrect.")]
      [] r.err = "HTTPError" /\ r.code # 404 ->
            [next |-> "raise", exc |-> Raise("UnboundLocalError", "html")]
      [] OTHER ->
            [next |-> IF Contains(r.body, "successful") THEN "data" ELSE "create",
             exc |-> NoResult]

\* Lines 126-141, called from line 75 with the session read there.
TestSession(t, r) ==
    /\ pc[t] = "test"
    /\ LET g == GetSessionId(op[t].preSession)
           o == TestOutcome(r)
       IN  IF g.err # ""
           THEN \* line 130-131: "/".join of a None segment (or no .get at all)
                /\ Finish(t, Raise(IF g.err = "None" THEN "TypeError" ELSE g.err, "session_id"))
                /\ UNCHANGED log
           ELSE /\ log' = [log EXCEPT ![t] = Append(@, Event("testsession", baseUrl, g.sid, <<>>, r))]
                /\ IF o.next = "raise" THEN Finish(t, o.exc) ELSE Goto(t, o.next)
    /\ UNCHANGED <<session, baseUrl, op, issuedAt, raised>>

\* ---------------------------------------------------------- _create_session
\* Bodies the remote service may answer createsession with: a session object
\* carrying a fresh identifier, an object without one, {} or null.
CreateResponses ==
    {Resp("", 200, b) : b \in {JNoId, JEmptyObj, JNull}}
    \cup (IF Len(issuedAt) < MaxSessions THEN {Resp("", 200, JSession(Len(issuedAt) + 1))} ELSE {})
    \cup HttpErrors

\* Lines 109-116: what _create_session does with the transport's answer.
CreateOutcome(r) ==
    CASE r.err = "URLError" -> [next |-> "raise", exc |-> Raise("URLError", "")]
      [] r.err = "HTTPError" /\ r.code = 404 ->
            [next |-> "raise",
             exc |-> Raise("NoResultError", "Couldn't create session. API auth details may be incorrect.")]
      [] r.err = "HTTPError" /\ r.code # 404 ->
            [next |-> "raise", exc |-> Raise("UnboundLocalError", "html")]
      [] OTHER -> [next |-> "data", exc |-> NoResult]

\* CreateSession dropping the held session when createsession fails.
CreateSession_ClearsOnFailure(t, r) ==
    /\ pc[t] = "create"
    /\ log' = [log EXCEPT ![t] = Append(@, Event("createsession", baseUrl, 0, <<>>, r))]
    /\ LET o == CreateOutcome(r)
       IN  IF o.next = "raise"
           THEN Finish(t, o.exc) /\ session' = JNull /\ UNCHANGED issuedAt
           ELSE /\ Goto(t, o.next)
                /\ session' = r.body
                /\ issuedAt' = IF r.body = JSession(Len(issuedAt) + 1)
                               THEN Append(issuedAt, baseUrl) ELSE issuedAt
    /\ UNCHANGED <<baseUrl, op, raised>>

\* CreateSession storing its session only if the slot still holds what the
\* request found at its start.
CreateSession_KeepsNewer(t, r) ==
    /\ pc[t] = "create"
    /\ log' = [log EXCEPT ![t] = Append(@, Event("createsession", baseUrl, 0, <<>>, r))]
    /\ LET o == CreateOutcome(r)
       IN  IF o.next = "raise"
           THEN Finish(t, o.exc) /\ UNCHANGED <<session, issuedAt>>
           ELSE /\ Goto(t, o.next)
                /\ session' = IF session = op[t].preSession THEN r.body ELSE session
                /\ issuedAt' = IF r.body = JSession(Len(issuedAt) + 1)
                               THEN Append(issuedAt, baseUrl) ELSE issuedAt
    /\ UNCHANGED <<baseUrl, op, raised>>

\* Lines 76-77 and 106-116: the decoded body, whatever it is, becomes
\* self._session; a raise leaves the slot as it was.
CreateSession(t, r) ==
    /\ pc[t] = "create"
    /\ log' = [log EXCEPT ![t] = Append(@, Event("createsession", baseUrl, 0, <<>>, r))]
    /\ LET o == CreateOutcome(r)
       IN  IF o.next = "raise"
           THEN Finish(t, o.exc) /\ UNCHANGED <<session, issuedAt>>
           ELSE /\ Goto(t, o.next)
                /\ session' = r.body
                /\ issuedAt' = IF r.body = JSession(Len(issuedAt) + 1)
                               THEN Append(issuedAt, baseUrl) ELSE issuedAt
    /\ UNCHANGED <<baseUrl, op, raised>>

\* ------------------------------------------------------ the data request
\* IsEmptyResult testing for None only.
IsEmptyResult_NullOnly(j) == j.tag = "null"

\* Line 92: `not jsonfinal`.
IsEmptyResult(j) == ~Truthy(j)

\* DataOutcome with the final `return jsonfinal` lost: the call returns None.
DataOutcome_NoReturn(r) ==
    CASE r.err = "URLError" -> Raise("URLError", "")
      [] r.err = "HTTPError" /\ r.code = 404 ->
            Raise("NoResultError", "Request invalid. API auth details may be incorrect.")
      [] r.err = "HTTPError" /\ r.code = 400 ->
            Raise("NoResultError", "Request invalid. Bad request.")
      [] r.err = "HTTPError" /\ r.code \notin {400, 404} ->
            Raise("UnboundLocalError", "html")
      [] OTHER ->
            IF ~Truthy(r.body)
            THEN Raise("NoResultError", "Request was successful, but returned no data.")
            ELSE Return(JNull)

\* Lines 82-94: what _make_request does with the transport's answer.
DataOutcome(r) ==
    CASE r.err = "URLError" -> Raise("URLError", "")
      [] r.err = "HTTPError" /\ r.code = 404 ->
            Raise("NoResultError", "Request invalid. API auth details may be incorrect.")
      [] r.err = "HTTPError" /\ r.code = 400 ->
            Raise("NoResultError", "Request invalid. Bad request.")
      [] r.err = "HTTPError" /\ r.code \notin {400, 404} ->
            Raise("UnboundLocalError", "html")
      [] OTHER ->
            IF IsEmptyResult(r.body)
            THEN Raise("NoResultError", "Request was successful, but returned no data.")
            ELSE Return(r.body)

\* Lines 102-103: the stringified parameters appended to the path.
PathParams(parameters) == [i \in 1..Len(parameters) |-> Str(parameters[i])]

\* Lines 79-94 with _build_request_url (96-104): the URL is built from the
\* slot as it is now, fetched, decoded and checked for emptiness.
DataRequest(t, r) ==
    /\ pc[t] = "data"
    /\ LET g == GetSessionId(session)
           o == DataOutcome(r)
       IN  IF g.err # ""
           THEN \* line 99 (None has no .get) or line 104 (join of a None segment)
                /\ Finish(t, Raise(IF g.err = "None" THEN "TypeError" ELSE g.err, "session_id"))
                /\ UNCHANGED <<log, raised>>
           ELSE /\ log' = [log EXCEPT ![t] =
                             Append(@, Event(op[t].methodname, baseUrl, g.sid,
                                             PathParams(op[t].parameters), r))]
                /\ Finish(t, o)
                /\ raised' = IF o.kind = "raise"
                             THEN raised \cup {[err |-> r.err, code |-> r.code, cls |-> o.cls, msg |-> o.msg]}
                             ELSE raised
    /\ UNCHANGED <<session, baseUrl, op, issuedAt>>

\* --------------------------------------------------------- _switch_endpoint
\* SwitchEndpoint assigning before it validates: a rejected value still
\* lands in the base URL.
SwitchEndpoint_AssignFirst(t, e) ==
    /\ pc[t] = "idle"
    /\ op' = [op EXCEPT ![t] = [name |-> "switch", methodname |-> "", parameters |-> <<>>,
                                arg |-> e, preSession |-> session, preBase |-> baseUrl]]
    /\ log' = [log EXCEPT ![t] = <<>>]
    /\ baseUrl' = IF IsEndpoint(e) THEN EndpointValue(e) ELSE e
    /\ result' = [result EXCEPT ![t] =
                    IF IsEndpoint(e) THEN Return(JNull)
                    ELSE Raise("SmiteError", "You need to use an enum to switch endpoints")]
    /\ UNCHANGED <<session, pc, issuedAt, raised>>

\* SwitchEndpoint dropping the held session on a successful switch.
SwitchEndpoint_ResetsSession(t, e) ==
    /\ pc[t] = "idle"
    /\ op' = [op EXCEPT ![t] = [name |-> "switch", methodname |-> "", parameters |-> <<>>,
                                arg |-> e, preSession |-> session, preBase |-> baseUrl]]
    /\ log' = [log EXCEPT ![t] = <<>>]
    /\ IF IsEndpoint(e)
       THEN /\ baseUrl' = EndpointValue(e)
            /\ session' = JNull
            /\ result' = [result EXCEPT ![t] = Return(JNull)]
       ELSE /\ baseUrl' = baseUrl
            /\ session' = session
            /\ result' = [result EXCEPT ![t] = Raise("SmiteError", "You need to use an enum to switch endpoints")]
    /\ UNCHANGED <<pc, issuedAt, raised>>

\* Lines 143-148.
SwitchEndpoint(t, e) ==
    /\ pc[t] = "idle"
    /\ op' = [op EXCEPT ![t] = [name |-> "switch", methodname |-> "", parameters |-> <<>>,
                                arg |-> e, preSession |-> session, preBase |-> baseUrl]]
    /\ log' = [log EXCEPT ![t] = <<>>]
    /\ IF IsEndpoint(e)
       THEN /\ baseUrl' = EndpointValue(e)
            /\ result' = [result EXCEPT ![t] = Return(JNull)]
       ELSE /\ baseUrl' = baseUrl
            /\ result' = [result EXCEPT ![t] = Raise("SmiteError", "You need to use an enum to switch endpoints")]
    /\ UNCHANGED <<session, pc, issuedAt, raised>>

\* ------------------------------------------------------------ specification
\* One caller: the client is used as the source intends, one blocking call
\* at a time.
Caller == 1

\* URL signing is left out of this specification (see SpecSigned).
Next ==
    \/ \E c \in PublicCalls : BeginRequest(Caller, c) /\ UNCHANGED signing
    \/ \E r \in TestResponses : TestSession(Caller, r) /\ UNCHANGED signing
    \/ \E r \in CreateResponses : CreateSession(Caller, r) /\ UNCHANGED signing
    \/ \E r \in DataResponses : DataRequest(Caller, r) /\ UNCHANGED signing
    \/ \E e \in SwitchArgs : SwitchEndpoint(Caller, e) /\ UNCHANGED signing

Spec == Init /\ [][Next]_vars

\* Two callers on one client, with no coordination between them: the steps
\* of their requests interleave at every network call. The transport answers
\* are narrowed to those that session renewal turns on.
ConcCalls == {<<"getgods", <<1>>>>}

ConcTestResponses == {Resp("", 200, JTestOk), Resp("", 200, JTestBad)}

ConcCreateResponses ==
    {Resp("HTTPError", 404, JNull)}
    \cup (IF Len(issuedAt) < MaxSessions THEN {Resp("", 200, JSession(Len(issuedAt) + 1))} ELSE {})

ConcDataResponses == {Resp("", 200, JGod), Resp("", 200, JEmptyList)}

NextConc ==
    \E t \in Threads :
        \/ \E c \in ConcCalls : BeginRequest(t, c) /\ UNCHANGED signing
        \/ \E r \in ConcTestResponses : TestSession(t, r) /\ UNCHANGED signing
        \/ \E r \in ConcCreateResponses : CreateSession(t, r) /\ UNCHANGED signing
        \/ \E r \in ConcDataResponses : DataRequest(t, r) /\ UNCHANGED signing

SpecConc == Init /\ [][NextConc]_vars

\* ------------------------------------------------------------- URL signing
\* The credentials given to __init__ (lines 67-68).
DevId == "123"

AuthKey == "abc"

\* Lines 118-120: strftime("%Y%m%d%H%M%S") of the clock, to the second; the
\* minute and second fields are what changes within the model's horizon.
CreateNowTimestamp(c) == [minute |-> c \div 60, second |-> c % 60]

\* Lines 122-124: the digest of dev_id + methodname + auth_key + now, with
\* `now` read from the clock inside _create_signature. The digest is kept as
\* the text that is hashed.
CreateSignature(methodname, c) ==
    [dev_id |-> DevId, methodname |-> methodname, auth_key |-> AuthKey,
     now |-> CreateNowTimestamp(c)]

\* the method whose URL the thread is building
UrlMethod(t) ==
    CASE pc[t] = "test" -> "testsession"
      [] pc[t] = "create" -> "createsession"
      [] OTHER -> op[t].methodname

\* the thread stands before a network call whose URL is not yet built
Building(t) == pc[t] \in {"test", "create", "data"} /\ Len(urls[t]) = Len(log[t])

\* the URL of the thread's next network call is built
UrlReady(t) == Len(urls[t]) = Len(log[t]) + 1

\* The clock advances by one second.
Tick ==
    /\ clock < MaxClock
    /\ clock' = clock + 1
    /\ UNCHANGED <<session, baseUrl, pc, op, log, result, issuedAt, raised, firstRead, urls>>

\* The first clock read of a URL: inside _create_signature for createsession
\* (line 107) and the data request (line 97), the path timestamp for
\* testsession (line 128).
ReadFirst(t) ==
    /\ Building(t)
    /\ firstRead[t] = NoRead
    /\ firstRead' = [firstRead EXCEPT ![t] = clock]
    /\ UNCHANGED <<session, baseUrl, pc, op, log, result, issuedAt, raised, clock, urls>>

\* The second clock read of a URL, which completes it: the path timestamp
\* for createsession (line 108) and the data request (line 98), the one
\* inside _create_signature for testsession (line 129).
ReadSecond(t) ==
    /\ Building(t)
    /\ firstRead[t] # NoRead
    /\ LET m == UrlMethod(t)
           u == IF m = "testsession"
                THEN [method |-> m, signature |-> CreateSignature(m, clock),
                      timestamp |-> CreateNowTimestamp(firstRead[t])]
                ELSE [method |-> m, signature |-> CreateSignature(m, firstRead[t]),
                      timestamp |-> CreateNowTimestamp(clock)]
       IN  urls' = [urls EXCEPT ![t] = Append(@, u)]
    /\ firstRead' = [firstRead EXCEPT ![t] = NoRead]
    /\ UNCHANGED <<session, baseUrl, pc, op, log, result, issuedAt, raised, clock>>

\* One caller, with the building of each signed URL spelled out: two clock
\* reads, between which the clock may advance, then the network call.
NextSigned ==
    \/ /\ \E c \in ConcCalls : BeginRequest(Caller, c)
       /\ urls' = [urls EXCEPT ![Caller] = <<>>]
       /\ UNCHANGED <<clock, firstRead>>
    \/ Tick
    \/ ReadFirst(Caller)
    \/ ReadSecond(Caller)
    \/ UrlReady(Caller) /\ (\E r \in ConcTestResponses : TestSession(Caller, r)) /\ UNCHANGED signing
    \/ UrlReady(Caller) /\ (\E r \in ConcCreateResponses : CreateSession(Caller, r)) /\ UNCHANGED signing
    \/ UrlReady(Caller) /\ (\E r \in ConcDataResponses : DataRequest(Caller, r)) /\ UNCHANGED signing

SpecSigned == Init /\ [][NextSigned]_vars

\* ================================================================== claims
\* Vocabulary of the claims, over the record each thread keeps of its
\* operation.
InRequest(t) == op[t].name = "request"

Ended(t) == InRequest(t) /\ pc[t] = "idle"

IsSessionCall(e) == e.method \in {"testsession", "createsession"}

\* the positions of the calls of one method in the thread's log
CallsOf(t, m) == {i \in 1..Len(log[t]) : log[t][i].method = m}

DataCalls(t) == {i \in 1..Len(log[t]) : ~IsSessionCall(log[t][i])}

\* the probe was answered, with / without the word "successful" in the body
ProbeSucceeded(e) ==
    /\ e.method = "testsession" /\ e.err = ""
    /\ \E i \in 1..Len(e.body.words) : e.body.words[i] = "successful"

ProbeFailed(e) ==
    /\ e.method = "testsession" /\ e.err = ""
    /\ \A i \in 1..Len(e.body.words) : e.body.words[i] # "successful"

\* the slot held nothing usable when the call started: None, or an empty value
HeldNothing(t) == op[t].preSession.tag = "null" \/ op[t].preSession = JEmptyObj

Is404(e) == e.err = "HTTPError" /\ e.code = 404

\* C1: a request issues createsession only if the slot held no session when
\* the call started or the call's probe came back without the success marker;
\* when the probe of the held session succeeds, no createsession is issued,
\* the slot keeps the held session and the data request carries its
\* identifier.
C1_NoRedundantCreateSession ==
    \A t \in Threads : InRequest(t) =>
        /\ CallsOf(t, "createsession") # {} =>
              \/ HeldNothing(t)
              \/ \E i \in CallsOf(t, "testsession") : ProbeFailed(log[t][i])
        /\ (\E i \in CallsOf(t, "testsession") : ProbeSucceeded(log[t][i])) =>
              /\ CallsOf(t, "createsession") = {}
              /\ session = op[t].preSession
              /\ \A i \in DataCalls(t) :
                    /\ "session_id" \in op[t].preSession.keys
                    /\ log[t][i].sid = op[t].preSession.v

\* C1 witness: a request on a held session whose probe succeeded has sent its
\* data request.
C1_Witness ==
    \E t \in Threads :
        /\ Ended(t) /\ Len(log[t]) = 2
        /\ ProbeSucceeded(log[t][1])
        /\ ~IsSessionCall(log[t][2])
        /\ result[t].kind = "return"

\* every call of the request was answered successfully: the probe with the
\* marker, createsession with a session identifier, the data request with a
\* non-empty payload
AllAnsweredWell(t) ==
    \A i \in 1..Len(log[t]) :
        LET e == log[t][i]
        IN  /\ e.err = ""
            /\ e.method = "testsession" => ProbeSucceeded(e)
            /\ e.method = "createsession" => "session_id" \in e.body.keys
            /\ ~IsSessionCall(e) => e.body \in {JGod, JMatches}

FirstOnFreshClient(t) == Ended(t) /\ op[t].preSession = JNull /\ AllAnsweredWell(t)

OnValidSession(t) == Ended(t) /\ "session_id" \in op[t].preSession.keys /\ AllAnsweredWell(t)

\* C2 as stated: on a transport that answers everything successfully the
\* first request of a fresh client returns the payload after exactly two round
\* trips, and a later request on the still valid session takes exactly one.
C2_Original ==
    \A t \in Threads :
        /\ FirstOnFreshClient(t) =>
              /\ Len(log[t]) = 2
              /\ result[t] = Return(log[t][2].body)
        /\ OnValidSession(t) => Len(log[t]) = 1

\* C2 amended: the first request takes exactly two round trips (createsession,
\* then the data request) and returns the payload unchanged; a later request
\* on the still valid session also takes exactly two (testsession, then the
\* data request) and returns the payload unchanged.
C2_RoundTrips ==
    \A t \in Threads :
        /\ FirstOnFreshClient(t) =>
              /\ Len(log[t]) = 2
              /\ log[t][1].method = "createsession"
              /\ log[t][2].method = op[t].methodname
              /\ result[t] = Return(log[t][2].body)
        /\ OnValidSession(t) =>
              /\ Len(log[t]) = 2
              /\ log[t][1].method = "testsession"
              /\ log[t][2].method = op[t].methodname
              /\ result[t] = Return(log[t][2].body)

\* C2 witness: get_gods ([1]) answered {"id":1,"Name":"TestGod"} on a session
\* that an earlier request created and the probe found valid.
C2_Witness ==
    \E t \in Threads :
        /\ OnValidSession(t)
        /\ op[t].methodname = "getgods" /\ op[t].parameters = <<1>>
        /\ log[t][2].params = <<"1">>
        /\ result[t] = Return(JGod)

\* the decoded bodies that are empty: null, {} and []
EmptyBodies == {JNull, JEmptyObj, JEmptyList}

C4_SessionCall404 ==
    \A t \in Threads : \A i \in 1..Len(log[t]) :
        (InRequest(t) /\ IsSessionCall(log[t][i]) /\ Is404(log[t][i])) =>
            /\ i = Len(log[t])
            /\ pc[t] = "idle"
            /\ result[t].kind = "raise"
            /\ result[t].cls = "NoResultError"
            /\ result[t].msg = (IF log[t][i].method = "testsession"
                                THEN "Couldn't test session. API auth details may be incorrect."
                                ELSE "Couldn't create session. API auth details may be incorrect.")
            /\ session = op[t].preSession

\* C4 witness: the probe of a held session was answered 404.
C4_Witness ==
    \E t \in Threads :
        /\ Ended(t) /\ Len(log[t]) = 1
        /\ log[t][1].method = "testsession" /\ Is404(log[t][1])
        /\ "session_id" \in session.keys

\* C5 as stated: the slot holds a session only as the result of a
\* createsession answer that carries a session identifier; an answer without
\* one is never stored and never reaches the building of a data request.
C5_OnlyIdentifiedSessionsStored ==
    /\ session = JNull \/ "session_id" \in session.keys
    /\ \A t \in Threads : \A i \in CallsOf(t, "createsession") :
          (log[t][i].err = "" /\ "session_id" \notin log[t][i].body.keys) =>
              pc[t] # "data"

\* C6 as stated: once a request whose probe came back without the success
\* marker has ended, however it ended, the slot no longer holds the session
\* that failed the probe.
C6_Original ==
    \A t \in Threads :
        (Ended(t) /\ Len(log[t]) > 0 /\ ProbeFailed(log[t][1])) =>
            session # op[t].preSession

\* C6 amended: after a probe without the success marker the request goes on
\* to createsession; if createsession is answered, its decoded body replaces
\* the failed session in the slot and the data request is built from it, not
\* from the failed session; if createsession fails, the request fails with no
\* data request and the slot still holds the session that failed the probe.
C6_FailedProbeRenews ==
    \A t \in Threads :
        (InRequest(t) /\ Len(log[t]) > 0 /\ ProbeFailed(log[t][1])) =>
            /\ Len(log[t]) = 1 => (pc[t] = "create" /\ session = op[t].preSession)
            /\ Len(log[t]) > 1 =>
                  /\ log[t][2].method = "createsession"
                  /\ IF log[t][2].err = ""
                     THEN /\ session = log[t][2].body
                          /\ session # op[t].preSession
                          /\ \A i \in DataCalls(t) :
                                /\ "session_id" \in session.keys
                                /\ log[t][i].sid = session.v
                                /\ log[t][i].sid # op[t].preSession.v
                     ELSE /\ Len(log[t]) = 2
                          /\ pc[t] = "idle"
                          /\ result[t].kind = "raise"
                          /\ session = op[t].preSession

\* C6 witness: the probe came back without the marker, createsession was
\* answered 404, and the request has ended.
C6_Witness ==
    \E t \in Threads :
        /\ Ended(t) /\ Len(log[t]) = 2
        /\ ProbeFailed(log[t][1])
        /\ log[t][2].method = "createsession" /\ Is404(log[t][2])
        /\ session = op[t].preSession

\* an HTTP error status that the call has no handler for: not 404, and not
\* 400 on the data request
OtherHttpError(e) ==
    /\ e.err = "HTTPError"
    /\ e.code # 404
    /\ ~IsSessionCall(e) => e.code # 400

\* C7 as stated: a network call that fails with such a status ends the
\* request by raising that transport failure, with nothing decoded and no
\* session stored from the failed call.
C7_TransportFailurePropagates ==
    \A t \in Threads : \A i \in 1..Len(log[t]) :
        (InRequest(t) /\ OtherHttpError(log[t][i])) =>
            /\ i = Len(log[t])
            /\ pc[t] = "idle"
            /\ result[t].kind = "raise"
            /\ result[t].cls = "HTTPError"
            /\ log[t][i].method = "createsession" => session = op[t].preSession

\* the three data-request failures the claim names
IsNamedFailure(f) ==
    \/ f.err = "HTTPError" /\ f.code \in {400, 404}
    \/ f.err = ""

SameCause(f, g) == f.err = g.err /\ f.code = g.code

\* C8 as stated: a 404, a 400 and an empty payload on the data request end
\* in three pairwise distinct kinds of error.
C8_KindsDistinct ==
    \A f \in raised : \A g \in raised :
        (IsNamedFailure(f) /\ IsNamedFailure(g) /\ ~SameCause(f, g)) => f.cls # g.cls

EndpointUrls == {EndpointValue(e) : e \in Endpoints}

\* C9: a switch to a value outside the three endpoints raises the
\* configuration error (SmiteError) and leaves the base URL and the held
\* session as they were; the base URL is always one of the three endpoint
\* URLs, the primary one until a switch is made.
C9_InvalidSwitchRejected ==
    /\ baseUrl \in EndpointUrls
    /\ (\A t \in Threads : op[t].name = "none") => baseUrl = EndpointValue("PC")
    /\ \A t \in Threads :
          (op[t].name = "switch" /\ op[t].arg \notin Endpoints) =>
              /\ result[t].kind = "raise"
              /\ result[t].cls = "SmiteError"
              /\ baseUrl = op[t].preBase
              /\ session = op[t].preSession

\* C9 witness: an invalid switch made after a valid one, with a session held.
C9_Witness ==
    \E t \in Threads :
        /\ op[t].name = "switch" /\ op[t].arg \notin Endpoints
        /\ op[t].preBase = EndpointValue("PS4")
        /\ "session_id" \in session.keys
        /\ result[t].kind = "raise"

\* C10: a successful switch sets the base URL to the chosen endpoint's and
\* leaves the held session as it was; every network call of a request
\* (testsession, createsession, data request) goes to the base URL selected
\* at that time, and the probe carries the identifier of the held session,
\* wherever that session was created.
C10_SwitchKeepsSession ==
    \A t \in Threads :
        /\ (op[t].name = "switch" /\ op[t].arg \in Endpoints) =>
              /\ result[t] = Return(JNull)
              /\ baseUrl = EndpointValue(op[t].arg)
              /\ session = op[t].preSession
        /\ InRequest(t) =>
              /\ \A i \in 1..Len(log[t]) : log[t][i].base = baseUrl
              /\ \A i \in CallsOf(t, "testsession") :
                    /\ "session_id" \in op[t].preSession.keys
                    /\ log[t][i].sid = op[t].preSession.v

\* C10 witness: after a switch, a request has probed, created a session and
\* sent its data request on the new base URL, the probe carrying a session
\* that was created on another endpoint.
C10_Witness ==
    \E t \in Threads :
        /\ Ended(t) /\ Len(log[t]) = 3
        /\ log[t][1].method = "testsession"
        /\ log[t][1].sid \in 1..Len(issuedAt)
        /\ issuedAt[log[t][1].sid] # log[t][1].base
        /\ log[t][2].method = "createsession"
        /\ \A i \in 1..3 : log[t][i].base = EndpointValue("PS4")

\* the place of a network call in the order of a request
Rank(e) ==
    CASE e.method = "testsession" -> 1
      [] e.method = "createsession" -> 2
      [] OTHER -> 3

\* C11: the network calls of one request come in the order testsession (only
\* with a session held at the start), createsession, data request, at most one
\* of each, and a call that failed is the last one (no retry); the data
\* request directly follows a probe that returned the success marker or a
\* createsession that was answered, and never carries the session that failed
\* the probe of that request.
C11_CallOrder ==
    \A t \in Threads : InRequest(t) =>
        /\ \A i \in 1..Len(log[t]) : \A j \in 1..Len(log[t]) :
              i < j => Rank(log[t][i]) < Rank(log[t][j])
        /\ \A i \in CallsOf(t, "testsession") : ~HeldNothing(t)
        /\ \A i \in 1..Len(log[t]) :
              log[t][i].err # "" => (i = Len(log[t]) /\ pc[t] = "idle")
        /\ \A i \in DataCalls(t) :
              /\ i > 1 /\ i = Len(log[t]) /\ pc[t] = "idle"
              /\ \/ ProbeSucceeded(log[t][i - 1])
                 \/ log[t][i - 1].method = "createsession" /\ log[t][i - 1].err = ""
              /\ \A j \in CallsOf(t, "testsession") :
                    ProbeFailed(log[t][j]) => log[t][i].sid # log[t][j].sid

\* C11 witness: a request that probed (no marker), created a session and sent
\* its data request, in that order.
C11_Witness ==
    \E t \in Threads :
        /\ Ended(t) /\ Len(log[t]) = 3
        /\ ProbeFailed(log[t][1])
        /\ log[t][2].method = "createsession" /\ log[t][2].err = ""
        /\ ~IsSessionCall(log[t][3])
        /\ log[t][3].sid = log[t][2].body.v
        /\ result[t].kind = "return"

\* the last call in a thread's log
LastCall(l) == l[Len(l)]

\* C12: with two callers on one client nothing serialises session renewal:
\* every answered createsession overwrites the single slot with its body,
\* whatever the slot holds and whatever the other caller is doing, and every
\* data request carries the identifier that is in the slot at the moment its
\* URL is built, whichever caller stored it.
C12_RenewalOverwrites ==
    [][\A t \in Threads :
          Len(log'[t]) = Len(log[t]) + 1 =>
              /\ (LastCall(log'[t]).method = "createsession" /\ LastCall(log'[t]).err = "") =>
                    session' = LastCall(log'[t]).body
              /\ ~IsSessionCall(LastCall(log'[t])) =>
                    /\ "session_id" \in session.keys
                    /\ LastCall(log'[t]).sid = session.v]_vars

\* C12 witness: both callers found the slot empty, both issued createsession
\* and got different sessions; the slot holds the second one, the first is
\* discarded, and the data request of the caller that created the first
\* carries the session created by the other.
C12_Witness ==
    \E t \in Threads : \E u \in Threads \ {t} :
        /\ Ended(t) /\ Ended(u)
        /\ op[t].preSession = JNull /\ op[u].preSession = JNull
        /\ Len(log[t]) = 2 /\ Len(log[u]) = 2
        /\ log[t][1].method = "createsession" /\ log[t][1].err = ""
        /\ log[u][1].method = "createsession" /\ log[u][1].err = ""
        /\ log[t][1].body.v # log[u][1].body.v
        /\ session = log[u][1].body
        /\ log[t][2].sid = log[u][1].body.v
        /\ log[u][2].sid = log[u][1].body.v

\* C13 as stated: in every signed URL the client builds, the timestamp in
\* the path is the timestamp that was hashed into the signature.
C13_TimestampMatchesSignature ==
    \A t \in Threads : \A i \in 1..Len(urls[t]) :
        urls[t][i].signature.now = urls[t][i].timestamp

====
